---- MODULE Spec2Model ----
(***************************************************************************)
(* Network-resource allocation of the aarch64 control plane (src/api.py):  *)
(* get_ips (next free IPv4/IPv6 pair), add_pop and add_host (next free     *)
(* /48 of the configured parent block), over the MongoDB collections       *)
(* "config", "containers" and "pops".                                      *)
(***************************************************************************)
EXTENDS Integers, Sequences, FiniteSets, TLC

\* ------------------------------------------------------------------ bounds
\* Number of concurrent request tasks served by the event loop.
NumReqs == 2
\* The parent blocks tried are /(48-MaxSubnetBits) .. /49.
MaxSubnetBits == 2
\* Overlapping add_host requests are admitted while the host records and the
\* requests in progress number fewer than MaxHosts.
MaxHosts == 3
\* Allocations followed per run that starts from a non-empty address pool.
MaxAllocs == 2

\* ------------------------------------------------------- program constants
\* Mutant: the scan starts at the reserved identifier.
RangeStartReserved == 2 - 1

\* range(2, 254): first identifier tried and the (exclusive) stop.
RangeStart == 2
RangeStop == 254
\* subnets(new_prefix=48)
NewPrefix == 48

Procs == 1..NumReqs
PopNames == {"ams", "fra"}
HostIps == {"192.0.2.10"}

\* Python's None / a missing dict key: both are falsy under .get().
None == "None"
NoPrefix == ""

\* --------------------------------------------------------------- responses
HostAdded == "200 Host added"
NoPrefixes == "500 No available prefixes to assign"
PopMissing == "422 PoP doesn't exist"
PopAdded == "200 PoP added"
PopConflict == "409 PoP with this name already exists"
\* Mutant: the unhandled exception is reported as the exhaustion error.
InternalErrorAsExhaustion == NoPrefixes

InternalError == "500 Internal Server Error"
ConfigMissing == "Exception Unable to find config document"

Response(status, pop) == [status |-> status, pop |-> pop]

\* ------------------------------------------------------------- conversions
Digit(d) ==
  CASE d = 0 -> "0" [] d = 1 -> "1" [] d = 2 -> "2" [] d = 3 -> "3"
    [] d = 4 -> "4" [] d = 5 -> "5" [] d = 6 -> "6" [] d = 7 -> "7"
    [] d = 8 -> "8" [] d = 9 -> "9" [] d = 10 -> "a" [] d = 11 -> "b"
    [] d = 12 -> "c" [] d = 13 -> "d" [] d = 14 -> "e" [] d = 15 -> "f"

\* str(int): decimal digits, no padding.
RECURSIVE Str(_)
Str(n) == IF n < 10 THEN Digit(n) ELSE Str(n \div 10) \o Digit(n % 10)

\* One 16-bit group of an IPv6 address: lowercase hex, no leading zeros.
RECURSIVE Hex(_)
Hex(n) == IF n < 16 THEN Digit(n) ELSE Hex(n \div 16) \o Digit(n % 16)

RECURSIVE Pow2(_)
Pow2(n) == IF n = 0 THEN 1 ELSE 2 * Pow2(n - 1)

\* A network is its three leading 16-bit groups (the /48 part); str() of a
\* /48 writes them in hex, drops the trailing run of zero groups into "::"
\* (it is the longest zero run: the five groups after the /48 are zero).
RECURSIVE JoinGroups(_)
JoinGroups(gs) ==
  IF gs = <<>> THEN ""
  ELSE IF Len(gs) = 1 THEN Hex(gs[1])
  ELSE Hex(gs[1]) \o ":" \o JoinGroups(Tail(gs))

RECURSIVE StripZeros(_)
StripZeros(gs) ==
  IF gs # <<>> /\ gs[Len(gs)] = 0 THEN StripZeros(SubSeq(gs, 1, Len(gs) - 1))
  ELSE gs

Str48(net) == JoinGroups(StripZeros(net)) \o "::/" \o Str(NewPrefix)

\* parent_prefix.subnets(new_prefix=48) raises ValueError ("new prefix must
\* be longer") for a parent longer than /48.
CanSubnet(parent) == parent.len <= NewPrefix

\* parent_prefix.subnets(new_prefix=48), in ascending order.
Subnets(parent) ==
  IF ~CanSubnet(parent) THEN <<>>
  ELSE [i \in 1..Pow2(NewPrefix - parent.len) |->
          <<parent.net[1], parent.net[2], parent.net[3] + (i - 1)>>]

\* list(...)[::-1]
Reverse(s) == [i \in 1..Len(s) |-> s[Len(s) + 1 - i]]

Range(s) == {s[i] : i \in 1..Len(s)}

\* find_one() on a collection holding at least one document.
FindOne(collection) == CHOOSE doc \in collection : TRUE

\* ------------------------------------------------------------------- state
VARIABLES
  config,          \* db["config"]: the set of its documents (none or one)
  containers,      \* db["containers"]: set of documents [ip4, ip6]
  pops,            \* db["pops"]: sequence of documents [name, hosts]
  pc,              \* add_host task p: "idle", "find_config", "update_one"
  request,         \* add_host task p: the request body it was called with
  _host,           \* add_host task p: local _host
  taken_prefixes,  \* add_host task p: local taken_prefixes
  response,        \* the response sent last: its status and detail, and the
                   \* PoP named by the request it answers
  ipc,             \* get_ips caller: "idle", "scan", "returned", "raised"
  ips_config,      \* get_ips: local config, as the set of documents found
  address,         \* get_ips: loop variable
  ret,             \* get_ips: the value returned: a pair, or <<>> for None;
                   \* or <<e>> for the exception e it raised
  returned,        \* history: the pairs get_ips returned, in order
  containers0      \* history: db["containers"] at the start

vars == <<config, containers, pops, pc, request, _host, taken_prefixes,
          response, ipc, ips_config, address, ret, returned, containers0>>
ipsVars == <<containers, ipc, ips_config, address, ret, returned, containers0>>

\* ---------------------------------------------------------- configurations
ParentBlocks ==
  {[net |-> <<8193, 3512, 0>>, len |-> l] :
     l \in (NewPrefix - MaxSubnetBits)..(NewPrefix + 1)}

Configs ==
  {[prefix4 |-> "10.0.0.", prefix6 |-> "fd00::", prefix |-> b] : b \in ParentBlocks}

\* str() of every /48 of the parent blocks, converted once.
Str48Of == [net \in UNION {Range(Subnets(b)) : b \in ParentBlocks} |-> Str48(net)]

\* ------------------------------------------------------------- add_host
\* The request bodies tried: any PoP name, and a "prefix" member either
\* absent or filled in by the client.
ReqPrefixes == {NoPrefix, Str48(<<8193, 3512, 0>>)}
Requests == [pop : PopNames, ip : HostIps, prefix : ReqPrefixes]

NoHost == [pop |-> "", ip |-> "", prefix |-> NoPrefix]

\* Mutant: the Host model declares "prefix", the client's value is kept.
HostDictKeepsPrefix(req) == [pop |-> req.pop, ip |-> req.ip, prefix |-> req.prefix]

\* _host = host.dict(); _host["ip"] = str(_host["ip"]).  The Host model
\* declares pop and ip; "prefix" is populated by add_host only, so a
\* "prefix" member of the request body is not carried into the dict.
HostDict(req) == [pop |-> req.pop, ip |-> req.ip, prefix |-> NoPrefix]

\* for host in pop.get("hosts"): taken_prefixes.append(host["prefix"])
HostPrefixes(hosts) == [i \in 1..Len(hosts) |-> hosts[i].prefix]

\* Mutant: only the first PoP document is read (find_one() for find()).
TakenPrefixesFirstPop(ps) ==
  IF ps = <<>> THEN <<>> ELSE HostPrefixes(Head(ps).hosts)

\* async for pop in db["pops"].find(): ... (every PoP, in collection order)
RECURSIVE TakenPrefixes(_)
TakenPrefixes(ps) ==
  IF ps = <<>> THEN <<>>
  ELSE HostPrefixes(Head(ps).hosts) \o TakenPrefixes(Tail(ps))

\* Mutant: the membership test is missing, every /48 is assigned in turn.
SelectPrefixNoCheck(slash48s, taken, prefix) ==
  IF slash48s = <<>> THEN prefix ELSE Str48(slash48s[Len(slash48s)])

\* The loop over the reversed subnet list: every free /48 is assigned to
\* _host["prefix"] in turn (the loop has no break), so the value left is the
\* last free one of the list.
RECURSIVE SelectPrefix(_, _, _)
SelectPrefix(slash48s, taken, prefix) ==
  IF slash48s = <<>> THEN prefix
  ELSE SelectPrefix(Tail(slash48s), taken,
         IF Str48Of[Head(slash48s)] \notin Range(taken)
         THEN Str48Of[Head(slash48s)] ELSE prefix)

\* Mutant: the write's acknowledgement is tested, not matched_count.
MatchedCountAcknowledged(ps, name) == 1

\* update_one({"name": name}, ...).matched_count
MatchedCount(ps, name) ==
  IF \E i \in 1..Len(ps) : ps[i].name = name THEN 1 ELSE 0

\* Mutant: the update is a "$set", the host list is replaced by the host.
UpdateOneSet(ps, name, host) ==
  IF \A i \in 1..Len(ps) : ps[i].name # name THEN ps
  ELSE LET k == CHOOSE i \in 1..Len(ps) :
                  /\ ps[i].name = name
                  /\ \A j \in 1..(i - 1) : ps[j].name # name
       IN [ps EXCEPT ![k].hosts = <<host>>]

\* Mutant: the update is an upsert, a missing PoP is created with the host.
UpdateOneUpsert(ps, name, host) ==
  IF \A i \in 1..Len(ps) : ps[i].name # name
  THEN Append(ps, [name |-> name, hosts |-> <<host>>])
  ELSE LET k == CHOOSE i \in 1..Len(ps) :
                  /\ ps[i].name = name
                  /\ \A j \in 1..(i - 1) : ps[j].name # name
       IN [ps EXCEPT ![k].hosts = Append(@, host)]

\* update_one({"name": name}, {"$push": {"hosts": host}}): the first
\* document with that name gets host appended to its hosts; none matching
\* leaves the collection as it is.
UpdateOnePush(ps, name, host) ==
  IF \A i \in 1..Len(ps) : ps[i].name # name THEN ps
  ELSE LET k == CHOOSE i \in 1..Len(ps) :
                  /\ ps[i].name = name
                  /\ \A j \in 1..(i - 1) : ps[j].name # name
       IN [ps EXCEPT ![k].hosts = Append(@, host)]

InProgress == Cardinality({q \in Procs : pc[q] # "idle"})

\* The places of the host records: <<i, j>> is host j of PoP document i.
Slots(ps) == UNION {{<<i, j>> : j \in 1..Len(ps[i].hosts)} : i \in 1..Len(ps)}

NumHosts(ps) == Cardinality(Slots(ps))

Quiet(p) == \A q \in Procs \ {p} : pc[q] = "idle"

\* Lines 130-140: the request arrives, _host is built and the PoPs are read.
\* The request is served by the first free task.
add_host_find_pops(p, sequential) ==
  /\ pc[p] = "idle"
  /\ \A q \in Procs : q < p => pc[q] # "idle"
  /\ IF sequential THEN Quiet(p) ELSE NumHosts(pops) + InProgress < MaxHosts
  /\ \E req \in Requests :
       /\ request' = [request EXCEPT ![p] = req]
       /\ _host' = [_host EXCEPT ![p] = HostDict(req)]
  /\ taken_prefixes' = [taken_prefixes EXCEPT ![p] = TakenPrefixes(pops)]
  /\ pc' = [pc EXCEPT ![p] = "find_config"]
  /\ UNCHANGED <<config, pops, response>>
  /\ UNCHANGED ipsVars

\* Lines 143-150: the configuration is read and the prefix selected.
add_host_find_config(p) ==
  /\ pc[p] = "find_config"
  /\ IF config = {} \/ ~CanSubnet(FindOne(config).prefix)
     THEN \* config_doc["prefix"] on None, or subnets() of a short block
          /\ response' = Response(InternalError, request[p].pop)
          /\ pc' = [pc EXCEPT ![p] = "idle"]
          /\ _host' = [_host EXCEPT ![p] = NoHost]
          /\ request' = [request EXCEPT ![p] = NoHost]
     ELSE LET prefix == SelectPrefix(Reverse(Subnets(FindOne(config).prefix)),
                                     taken_prefixes[p], _host[p].prefix)
          IN IF prefix = NoPrefix
             THEN /\ response' = Response(NoPrefixes, request[p].pop)
                  /\ pc' = [pc EXCEPT ![p] = "idle"]
                  /\ _host' = [_host EXCEPT ![p] = NoHost]
                  /\ request' = [request EXCEPT ![p] = NoHost]
             ELSE /\ _host' = [_host EXCEPT ![p].prefix = prefix]
                  /\ pc' = [pc EXCEPT ![p] = "update_one"]
                  /\ UNCHANGED <<response, request>>
  /\ taken_prefixes' = [taken_prefixes EXCEPT ![p] = <<>>]
  /\ UNCHANGED <<config, pops>>
  /\ UNCHANGED ipsVars

\* Lines 152-157: the host is pushed onto its PoP and the result reported.
add_host_update_one(p) ==
  /\ pc[p] = "update_one"
  /\ pops' = UpdateOnePush(pops, _host[p].pop, _host[p])
  /\ response' =
       IF MatchedCount(pops, _host[p].pop) = 1
       THEN Response(HostAdded, request[p].pop)
       ELSE Response(PopMissing, request[p].pop)
  /\ pc' = [pc EXCEPT ![p] = "idle"]
  /\ _host' = [_host EXCEPT ![p] = NoHost]
  /\ request' = [request EXCEPT ![p] = NoHost]
  /\ UNCHANGED <<config, taken_prefixes>>
  /\ UNCHANGED ipsVars

\* ---------------------------------------------------------------- add_pop
\* Mutant: insert_one without the unique index.
add_pop_no_index(name) ==
  /\ pops' = Append(pops, [name |-> name, hosts |-> <<>>])
  /\ response' = Response(PopAdded, name)
  /\ UNCHANGED <<config, pc, request, _host, taken_prefixes>>
  /\ UNCHANGED <<containers, ipc, ips_config, address, ret, returned, containers0>>

\* insert_one under the unique index on "name" (line 30).
add_pop(name) ==
  /\ IF \E i \in 1..Len(pops) : pops[i].name = name
     THEN /\ response' = Response(PopConflict, name)
          /\ UNCHANGED pops
     ELSE /\ pops' = Append(pops, [name |-> name, hosts |-> <<>>])
          /\ response' = Response(PopAdded, name)
  /\ UNCHANGED <<config, pc, request, _host, taken_prefixes>>
  /\ UNCHANGED ipsVars

\* ------------------------------------------------------ host provisioning
InitIdleIps ==
  /\ containers = {}
  /\ containers0 = {}
  /\ ipc = "idle"
  /\ ips_config = {}
  /\ address = RangeStart
  /\ ret = <<>>
  /\ returned = <<>>

InitHosts ==
  /\ config \in {{c} : c \in Configs} \cup {{}}
  /\ pops = <<>>
  /\ pc = [p \in Procs |-> "idle"]
  /\ request = [p \in Procs |-> NoHost]
  /\ _host = [p \in Procs |-> NoHost]
  /\ taken_prefixes = [p \in Procs |-> <<>>]
  /\ response = Response(None, "")

Init == InitHosts /\ InitIdleIps

Next ==
  \/ \E name \in PopNames : add_pop(name)
  \/ \E p \in Procs : add_host_find_pops(p, FALSE)
  \/ \E p \in Procs : add_host_find_config(p)
  \/ \E p \in Procs : add_host_update_one(p)

\* Requests arrive at any time and overlap.
Spec == Init /\ [][Next]_vars

NextSeq ==
  \/ \E name \in PopNames : add_pop(name)
  \/ \E p \in Procs : add_host_find_pops(p, TRUE)
  \/ \E p \in Procs : add_host_find_config(p)
  \/ \E p \in Procs : add_host_update_one(p)

\* A request arrives only when no other request is in progress.
SpecSeq == Init /\ [][NextSeq]_vars

\* ---------------------------------------------------------------- get_ips
\* config["prefix4"] + str(address)
Ip4Of(cfg, a) == cfg.prefix4 \o Str(a)

\* Mutant: the IPv6 address is built from the next identifier.
Ip6OfNext(cfg, a) == cfg.prefix6 \o Str(a + 1)

\* config["prefix6"] + str(address)
Ip6Of(cfg, a) == cfg.prefix6 \o Str(a)

\* Mutant: the lookup is keyed by the wrong field.
AddressTakenByIp6(cs, ip) == ip \in {c.ip6 : c \in cs}

\* db["containers"].find_one({"ip4": ip}) is not None
AddressTaken(cs, ip) == ip \in {c.ip4 : c \in cs}

\* Lines 71-73: the configuration is read; none stored raises.
get_ips_find_config ==
  /\ ipc = "idle"
  /\ containers0 = {} \/ Len(returned) < MaxAllocs
  /\ IF config = {}
     THEN /\ ipc' = "raised"
          /\ ret' = <<ConfigMissing>>
          /\ UNCHANGED <<ips_config, address>>
     ELSE /\ ips_config' = config
          /\ address' = RangeStart
          /\ ipc' = "scan"
          /\ UNCHANGED ret
  /\ UNCHANGED <<config, containers, returned, containers0>>
  /\ UNCHANGED <<pops, pc, request, _host, taken_prefixes, response>>

\* Mutant: get_ips records the pair it returns.
get_ips_find_one_recording ==
  /\ ipc = "scan"
  /\ IF ~AddressTaken(containers, Ip4Of(FindOne(ips_config), address))
     THEN /\ ret' = <<Ip4Of(FindOne(ips_config), address),
                      Ip6Of(FindOne(ips_config), address)>>
          /\ returned' = Append(returned, ret')
          /\ containers' = containers \cup {[ip4 |-> ret'[1], ip6 |-> ret'[2]]}
          /\ ipc' = "returned"
          /\ UNCHANGED address
     ELSE IF address + 1 < RangeStop
     THEN /\ address' = address + 1
          /\ UNCHANGED <<ipc, ret, returned, containers>>
     ELSE /\ ret' = <<>>
          /\ ipc' = "returned"
          /\ UNCHANGED <<address, returned, containers>>
  /\ UNCHANGED <<config, ips_config, containers0>>
  /\ UNCHANGED <<pops, pc, request, _host, taken_prefixes, response>>

\* Mutant: a taken identifier is asked for again until it is free.
get_ips_find_one_retrying ==
  /\ ipc = "scan"
  /\ IF ~AddressTaken(containers, Ip4Of(FindOne(ips_config), address))
     THEN /\ ret' = <<Ip4Of(FindOne(ips_config), address),
                      Ip6Of(FindOne(ips_config), address)>>
          /\ returned' = Append(returned, ret')
          /\ ipc' = "returned"
          /\ UNCHANGED address
     ELSE UNCHANGED <<ipc, address, ret, returned>>
  /\ UNCHANGED <<config, containers, ips_config, containers0>>
  /\ UNCHANGED <<pops, pc, request, _host, taken_prefixes, response>>

\* Lines 75-79: one turn of the loop, one find_one; falling off the end of
\* the loop returns None.
get_ips_find_one ==
  /\ ipc = "scan"
  /\ IF ~AddressTaken(containers, Ip4Of(FindOne(ips_config), address))
     THEN /\ ret' = <<Ip4Of(FindOne(ips_config), address),
                      Ip6Of(FindOne(ips_config), address)>>
          /\ returned' = Append(returned, ret')
          /\ ipc' = "returned"
          /\ UNCHANGED address
     ELSE IF address + 1 < RangeStop
     THEN /\ address' = address + 1
          /\ UNCHANGED <<ipc, ret, returned>>
     ELSE /\ ret' = <<>>
          /\ ipc' = "returned"
          /\ UNCHANGED <<address, returned>>
  /\ UNCHANGED <<config, containers, ips_config, containers0>>
  /\ UNCHANGED <<pops, pc, request, _host, taken_prefixes, response>>

\* The caller records the pair it was given before it asks for the next.
record_container ==
  /\ ipc = "returned"
  /\ ret # <<>>
  /\ containers' = containers \cup {[ip4 |-> ret[1], ip6 |-> ret[2]]}
  /\ ret' = <<>>
  /\ ipc' = "idle"
  /\ UNCHANGED <<config, ips_config, address, returned, containers0>>
  /\ UNCHANGED <<pops, pc, request, _host, taken_prefixes, response>>

\* ------------------------------------------------------ address allocation
IpsConfig == [prefix4 |-> "10.0.0.", prefix6 |-> "fd00::",
              prefix |-> [net |-> <<8193, 3512, 0>>, len |-> NewPrefix]]

\* The container documents of the identifiers ids.
Containers(ids) == {[ip4 |-> Ip4Of(IpsConfig, i), ip6 |-> Ip6Of(IpsConfig, i)] : i \in ids}

\* The pools tried: empty, a few low identifiers taken, and everything taken
\* but a few identifiers around the two ends of the range.
Pools ==
  {Containers(T) : T \in SUBSET {1, 2, 3}}
    \cup {Containers((1..255) \ F) : F \in SUBSET {1, 2, 3, 253, 254}}

InitIdleHosts ==
  /\ pops = <<>>
  /\ pc = [p \in Procs |-> "idle"]
  /\ request = [p \in Procs |-> NoHost]
  /\ _host = [p \in Procs |-> NoHost]
  /\ taken_prefixes = [p \in Procs |-> <<>>]
  /\ response = Response(None, "")

InitIps ==
  /\ config \in {{IpsConfig}, {}}
  /\ containers \in Pools
  /\ containers0 = containers
  /\ ipc = "idle"
  /\ ips_config = {}
  /\ address = RangeStart
  /\ ret = <<>>
  /\ returned = <<>>
  /\ InitIdleHosts

NextIps ==
  \/ get_ips_find_config
  \/ get_ips_find_one
  \/ record_container

\* One caller allocating addresses one after the other.
SpecIps == InitIps /\ [][NextIps]_vars

\* ------------------------------------------- both kinds of request at once
\* The pools tried next to host provisioning: one low identifier taken, and
\* every identifier taken but the last of the range.
MixedPools == {Containers({2}), Containers((1..255) \ {253})}

InitMixed ==
  /\ config \in {{IpsConfig}, {}}
  /\ containers \in MixedPools
  /\ containers0 = containers
  /\ ipc = "idle"
  /\ ips_config = {}
  /\ address = RangeStart
  /\ ret = <<>>
  /\ returned = <<>>
  /\ InitIdleHosts

NextMixed ==
  \/ \E name \in PopNames : add_pop(name)
  \/ \E p \in Procs : add_host_find_pops(p, TRUE)
  \/ \E p \in Procs : add_host_find_config(p)
  \/ \E p \in Procs : add_host_update_one(p)
  \/ get_ips_find_config
  \/ get_ips_find_one
  \/ record_container

\* An address allocation runs next to host provisioning, interleaved at
\* every store access.
SpecMixed == InitMixed /\ [][NextMixed]_vars

\* ------------------------------------------------------- fair scheduling
\* The pools tried under fair scheduling: one low identifier taken, and every
\* identifier of the range taken.
FairPools == {Containers({2}), Containers(1..255)}

InitFair ==
  /\ config \in {{IpsConfig}, {}}
  /\ containers \in FairPools
  /\ containers0 = containers
  /\ ipc = "idle"
  /\ ips_config = {}
  /\ address = RangeStart
  /\ ret = <<>>
  /\ returned = <<>>
  /\ InitIdleHosts

\* Next to the short scan PoPs are added and add_host requests overlap; next
\* to the scan of the whole range add_host requests arrive one at a time and
\* find no PoP.
NextFair ==
  \/ \E name \in PopNames : containers0 = Containers({2}) /\ add_pop(name)
  \/ \E p \in Procs : add_host_find_pops(p, containers0 # Containers({2}))
  \/ \E p \in Procs : add_host_find_config(p)
  \/ \E p \in Procs : add_host_update_one(p)
  \/ get_ips_find_config
  \/ get_ips_find_one
  \/ record_container

\* Overlapping add_host requests next to an address allocation.  The event
\* loop resumes every task whose store call has returned: a request that has
\* started is never left waiting for ever.
SpecFair ==
  /\ InitFair
  /\ [][NextFair]_vars
  /\ \A p \in Procs : WF_vars(add_host_find_config(p))
  /\ \A p \in Procs : WF_vars(add_host_update_one(p))
  /\ WF_vars(get_ips_find_one)

\* ================================================================== claims
PrefixAt(ps, slot) == ps[slot[1]].hosts[slot[2]].prefix

PopExists(ps, name) == \E i \in 1..Len(ps) : ps[i].name = name

ValidConfig == config # {} /\ FindOne(config).prefix.len <= 48

\* The number of /48s of the configured parent block.
Capacity == Pow2(48 - FindOne(config).prefix.len)

\* The /48s of the configured parent block no string of the set taken names.
Free48s(taken) ==
  {n \in Range(Subnets(FindOne(config).prefix)) : Str48(n) \notin taken}

\* Task p takes the step that ends at label from.
Leaves(p, from) == pc[p] = from /\ pc'[p] # from

\* C1: under overlapping add_host requests no reachable state holds two host
\* records, in the same or in different PoPs, with the same prefix.
C1_ConcurrentPrefixesDistinct ==
  \A s, t \in Slots(pops) : s # t => PrefixAt(pops, s) # PrefixAt(pops, t)

\* C2: when add_host requests run one at a time, no two host records of the
\* fleet share a prefix, and the taken set a request works with is the set
\* of the prefixes of all hosts of all PoPs.
C2_SequentialPrefixesDistinct ==
  /\ Cardinality({PrefixAt(pops, s) : s \in Slots(pops)}) = NumHosts(pops)
  /\ \A p \in Procs :
       pc[p] = "find_config" =>
         Range(taken_prefixes[p]) = {PrefixAt(pops, s) : s \in Slots(pops)}

\* A request is selecting its prefix with hosts recorded in two PoPs.
C2_Witness ==
  /\ \E p \in Procs : pc[p] = "find_config" /\ Len(taken_prefixes[p]) >= 2
  /\ \E s, t \in Slots(pops) : s[1] # t[1]

\* C3: the prefix add_host assigns is the numerically highest /48 of the
\* parent block that is not in the taken set.
C3_AssignsHighestFree ==
  [][\A p \in Procs :
       (Leaves(p, "find_config") /\ ValidConfig
          /\ Free48s(Range(taken_prefixes[p])) # {})
       => \E n \in Free48s(Range(taken_prefixes[p])) :
            /\ \A m \in Free48s(Range(taken_prefixes[p])) : m[3] <= n[3]
            /\ _host'[p].prefix = Str48(n)]_vars

\* C4: with as many hosts recorded as the parent block has /48s (K successful
\* calls, one at a time), the next add_host fails with the exhaustion error
\* and leaves every host list unchanged.
C4_ExhaustedAfterCapacity ==
  [][\A p \in Procs :
       (Leaves(p, "find_config") /\ ValidConfig /\ NumHosts(pops) = Capacity)
       => /\ response'.status = NoPrefixes
          /\ pc'[p] = "idle"
          /\ pops' = pops]_vars

\* The exhaustion error was answered with every /48 of a block of two or
\* more recorded.
C4_Witness ==
  /\ response.status = NoPrefixes
  /\ ValidConfig /\ Capacity >= 2 /\ NumHosts(pops) = Capacity

\* C9: an add_host whose PoP does not exist when the update is applied fails
\* with the PoP-not-found error and adds no host record to any PoP.
C9_MissingPopNoRecord ==
  [][\A p \in Procs :
       (Leaves(p, "update_one") /\ ~PopExists(pops, request[p].pop))
       => /\ response' = Response(PopMissing, request[p].pop)
          /\ pops' = pops]_vars

\* The PoP-not-found error was answered for a PoP that still does not exist,
\* while another PoP does.
C9_Witness ==
  /\ response.status = PopMissing
  /\ ~PopExists(pops, response.pop)
  /\ pops # <<>>

\* C10 as claimed: a request naming a non-existent PoP fails with NotFound in
\* every state, also when every /48 of the parent block is taken.
C10_NotFoundInEveryState ==
  [][\A p \in Procs :
       (pc[p] # "idle" /\ pc'[p] = "idle" /\ ValidConfig
          /\ ~PopExists(pops, request[p].pop))
       => response'.status = PopMissing]_vars

\* C10 as the code has it: the prefix is selected before the PoP is looked
\* at.  For a request naming a non-existent PoP: when every /48 is in its
\* taken set it fails with the exhaustion error; otherwise it goes on to the
\* update, which fails with NotFound.  No host record is added either way.
C10_SelectionBeforePopCheck ==
  [][\A p \in Procs :
       (ValidConfig /\ ~PopExists(pops, request[p].pop)) =>
         /\ (Leaves(p, "find_config") /\ Free48s(Range(taken_prefixes[p])) = {})
              => (response' = Response(NoPrefixes, request[p].pop)
                    /\ pc'[p] = "idle" /\ pops' = pops)
         /\ (Leaves(p, "find_config") /\ Free48s(Range(taken_prefixes[p])) # {})
              => (pc'[p] = "update_one" /\ response' = response /\ pops' = pops)
         /\ Leaves(p, "update_one")
              => (response' = Response(PopMissing, request[p].pop)
                    /\ pc'[p] = "idle" /\ pops' = pops)]_vars

\* The exhaustion error was answered to a request naming a PoP that does not
\* exist.
C10_Witness ==
  /\ response.status = NoPrefixes
  /\ ~PopExists(pops, response.pop)

\* The identifiers of 2..253 whose IPv4 address no container document holds.
FreeIds ==
  LET taken == {c.ip4 : c \in containers}
  IN {i \in 2..253 : IpsConfig.prefix4 \o Str(i) \notin taken}

\* The pair of identifier i.
PairOf(i) == <<IpsConfig.prefix4 \o Str(i), IpsConfig.prefix6 \o Str(i)>>

\* C5: with the IPv4 address of every identifier of 2..253 taken, get_ips
\* fails with an error; it does not return normally.
C5_ExhaustionRaises ==
  (config # {} /\ FreeIds = {} /\ ipc \in {"returned", "raised"})
    => ipc = "raised"

\* C6: with an identifier of 2..253 free, get_ips returns the pair built from
\* the smallest free identifier, the IPv6 address from that same identifier.
C6_ReturnsSmallestFree ==
  LET free == FreeIds
  IN (ipc = "returned" /\ free # {})
       => \E i \in free : (\A j \in free : i <= j) /\ ret = PairOf(i)

\* get_ips returned a pair from a pool whose smallest free identifier is not
\* the first of the range and has taken identifiers above it.
C6_Witness ==
  /\ ipc = "returned" /\ ret = PairOf(3)
  /\ \E c \in containers : c.ip4 = PairOf(253)[1]

\* C7: from an empty pool, with every pair recorded before the next call,
\* the IPv4 addresses returned are pairwise distinct, and so are the IPv6
\* addresses.
C7_ReturnedAddressesDistinct ==
  containers0 = {} =>
    /\ Cardinality({returned[i][1] : i \in 1..Len(returned)}) = Len(returned)
    /\ Cardinality({returned[i][2] : i \in 1..Len(returned)}) = Len(returned)

\* 128 allocations in a row were made from the empty pool, the identifiers
\* returned running from one to three digits.
C7_Witness == containers0 = {} /\ Len(returned) = 128

\* C8: any pair get_ips returns is the pair of an identifier of 2..253.
C8_ReservedNeverReturned ==
  (ipc = "returned" /\ ret # <<>>) => \E i \in 2..253 : ret = PairOf(i)

\* get_ips returned a pair while the addresses of identifiers 1 and 254 were
\* free.
C8_Witness ==
  /\ ipc = "returned" /\ ret # <<>>
  /\ \A c \in containers : c.ip4 # PairOf(1)[1] /\ c.ip4 # PairOf(254)[1]
  /\ \E c \in containers : c.ip4 = PairOf(2)[1]

\* The stored state: the three collections.
Stored == <<config, containers, pops>>

\* C11: with no configuration document stored, an allocation attempt ends in
\* a failure of its own, not the exhaustion failure (get_ips raises "Unable
\* to find config document" where exhaustion returns None; add_host answers
\* the server error where exhaustion answers "No available prefixes"), and
\* changes no stored state.
C11_MissingConfigFails ==
  [][config = {} =>
       /\ (ipc = "idle" /\ ipc' # "idle")
            => (ipc' = "raised" /\ ret' = <<ConfigMissing>> /\ Stored' = Stored)
       /\ \A p \in Procs :
            Leaves(p, "find_config")
              => /\ pc'[p] = "idle"
                 /\ response'.status = "500 Internal Server Error"
                 /\ response'.status # NoPrefixes
                 /\ Stored' = Stored]_vars

\* Both kinds of attempt have failed with no configuration stored.
C11_Witness ==
  /\ config = {}
  /\ ipc = "raised"
  /\ response.status = InternalError

\* C12: the prefix stored by a successful add_host is a /48 of the configured
\* parent block that was not in the taken set the request read, whatever
\* "prefix" the request body carried: it is selected from the free /48s,
\* kept until the update, and it is the one pushed.
C12_PrefixFromParentBlock ==
  [][\A p \in Procs :
       /\ (Leaves(p, "find_config") /\ pc'[p] = "update_one")
            => \E n \in Free48s(Range(taken_prefixes[p])) :
                 _host'[p].prefix = Str48(n)
       /\ (pc[p] = "update_one" /\ pc'[p] = "update_one")
            => _host'[p] = _host[p]
       /\ (Leaves(p, "update_one") /\ response'.status = HostAdded)
            => \E i \in 1..Len(pops) :
                 /\ pops[i].name = request[p].pop
                 /\ pops'[i].hosts =
                      Append(pops[i].hosts,
                             [pop |-> request[p].pop, ip |-> request[p].ip,
                              prefix |-> _host[p].prefix])]_vars

\* A request whose body carried an already recorded prefix is about to push
\* its host with another one.
C12_Witness ==
  \E p \in Procs :
    /\ pc[p] = "update_one"
    /\ request[p].prefix # NoPrefix
    /\ _host[p].prefix # request[p].prefix
    /\ \E s \in Slots(pops) : PrefixAt(pops, s) = request[p].prefix
    /\ PopExists(pops, request[p].pop)

\* C14: a step of get_ips, whether the call goes on, returns a pair, returns
\* None or raises, leaves the configuration, the container documents and
\* the PoPs with their host lists as they are.
C14_GetIpsOnlyReads ==
  [][(ipc \in {"idle", "scan"} /\ <<ipc, address, ret>>' # <<ipc, address, ret>>)
       => Stored' = Stored]_vars

\* get_ips has run through the whole range and returned None while a host
\* was recorded.
C14_Witness ==
  /\ ipc = "returned" /\ ret = <<>>
  /\ returned # <<>>
  /\ NumHosts(pops) >= 1

\* Task p takes the step that answers "Host added".
Succeeds(p) == Leaves(p, "update_one") /\ response'.status = HostAdded

\* C15: a successful add_host appends exactly one host record at the end of
\* the host list of the PoP its request names, in the one step of its
\* update; the other PoPs, the hosts already in the list, the configuration
\* and the container documents are unchanged, and no other step of add_host
\* touches a host list.
C15_SuccessAppendsOneHost ==
  [][/\ \A p \in Procs :
          Succeeds(p) =>
            /\ Len(pops') = Len(pops)
            /\ \E i \in 1..Len(pops) :
                 /\ pops[i].name = request[p].pop
                 /\ pops'[i].name = pops[i].name
                 /\ Len(pops'[i].hosts) = Len(pops[i].hosts) + 1
                 /\ SubSeq(pops'[i].hosts, 1, Len(pops[i].hosts)) = pops[i].hosts
                 /\ pops'[i].hosts[Len(pops'[i].hosts)].pop = request[p].pop
                 /\ \A j \in 1..Len(pops) : j # i => pops'[j] = pops[j]
            /\ config' = config
            /\ containers' = containers
     /\ (\A p \in Procs : ~Succeeds(p))
          => \A i \in 1..Len(pops) : pops'[i] = pops[i]]_vars

\* "Host added" was answered with two hosts in one PoP and a host in another.
C15_Witness ==
  /\ response.status = HostAdded
  /\ \E i, j \in 1..Len(pops) :
       i # j /\ Len(pops[i].hosts) >= 2 /\ Len(pops[j].hosts) >= 1


\* The answers that end an add_host request.
HostAnswers == {HostAdded, NoPrefixes, PopMissing, InternalError}

\* C16: under fair scheduling every add_host request that has started is
\* answered, with "Host added" or with a failure, and every get_ips call
\* that has started returns or raises, whatever runs next to it.  The scan of
\* get_ips stays within the identifiers 2..253 and never goes back: a turn
\* of its loop either ends the call or moves to the next identifier.  A
\* request of add_host only moves forward, from the read of the
\* configuration to the update to its answer, and the list of /48s it walks
\* names each /48 once.
C16_EveryRequestCompletes ==
  /\ \A p \in Procs : (pc[p] # "idle") ~> (pc[p] = "idle")
  /\ (ipc = "scan") ~> (ipc \in {"returned", "raised"})
  /\ [](ipc = "scan" => address \in RangeStart..(RangeStop - 1))
  /\ [][ipc = "scan" /\ <<ipc, address>>' # <<ipc, address>>
          => \/ ipc' = "returned" /\ address' = address
             \/ ipc' = "scan" /\ address' = address + 1]_vars
  /\ [][\A p \in Procs :
          /\ Leaves(p, "find_config") => pc'[p] \in {"update_one", "idle"}
          /\ Leaves(p, "update_one") => pc'[p] = "idle"
          /\ pc[p] # "idle" /\ pc'[p] = "idle"
               => response'.status \in HostAnswers]_vars
  /\ [](config # {} =>
         LET slash48s == Reverse(Subnets(FindOne(config).prefix))
         IN \A i, j \in 1..Len(slash48s) :
              slash48s[i] = slash48s[j] => i = j)

\* get_ips went through the whole range and returned, next to an add_host
\* request that was answered.
C16_Witness ==
  /\ ipc = "returned" /\ ret = <<>>
  /\ address = RangeStop - 1
  /\ response.status = PopMissing


\* A step of add_pop: the only steps that leave every add_host task where
\* it is.
AddPopStep == pc' = pc /\ <<pops, response>>' # <<pops, response>>

\* C17: in every reachable state no two PoP documents have the same name.
\* An add_pop whose name is stored answers with the conflict and changes no
\* PoP document, host lists included; one whose name is new appends an
\* empty PoP of that name.  The update of add_host changes at most one PoP
\* document and adds or removes none.
C17_PopNamesUnique ==
  /\ [](\A i, j \in 1..Len(pops) : pops[i].name = pops[j].name => i = j)
  /\ [][AddPopStep =>
          IF PopExists(pops, response'.pop)
          THEN response'.status = PopConflict /\ pops' = pops
          ELSE /\ response'.status = PopAdded
               /\ pops' = Append(pops, [name |-> response'.pop, hosts |-> <<>>])]_vars
  /\ [][\A p \in Procs :
          Leaves(p, "update_one") =>
            /\ Len(pops') = Len(pops)
            /\ \A i, j \in 1..Len(pops) :
                 pops'[i] # pops[i] /\ pops'[j] # pops[j] => i = j]_vars

\* The conflict was answered for a PoP that holds a host, next to another
\* PoP.
C17_Witness ==
  /\ response.status = PopConflict
  /\ Len(pops) = 2
  /\ \E i \in 1..Len(pops) :
       pops[i].name = response.pop /\ Len(pops[i].hosts) >= 1

====
